---- MODULE Spec2Model ----
(***************************************************************************)
(* Model of src/src/Section.tsx: the Section component, its four state     *)
(* cells, its three effects and its event handlers.                        *)
(*                                                                         *)
(* A state of the model is a committed render of the component.  An event  *)
(* (a keystroke, a click, the settling of a fetch promise chain) runs its  *)
(* handler, renders and commits; the effects whose dependencies changed    *)
(* in that commit are then run in declaration order, each as one step; a   *)
(* state update queued by an effect is applied by the next render.         *)
(* React runs the pending effects of a commit before it renders the next   *)
(* update, so an event is taken only when no effect or update is pending.  *)
(*                                                                         *)
(* Strings that are searched (item names, the filter text) are sequences   *)
(* of one-character strings; identifiers are only compared and are plain   *)
(* strings.                                                                *)
(***************************************************************************)
EXTENDS Integers, Sequences, FiniteSets, TLC

\* ------------------------------------------------------------------ bounds
MaxList == 3
MaxInflight == 2

\* ------------------------------------------------------- inputs enumerated
\* the literal appended by addToList
NovoItem == <<"N", "o", "v", "o", " ", "i", "t", "e", "m">>

\* values typed in the GitHub user input
Identifiers == {"", "a", "b"}

\* values typed in the filter input
FilterTexts == {<<>>, <<"o">>, <<"a", "/">>, <<"o", " ", "i">>}

\* repository records the API may return for a user: full_name is owner/repo
Repos(ident) ==
  IF ident = "a"
    THEN {<<>>,
          <<[full_name |-> <<"a", "/", "o">>], [full_name |-> <<"a", "/", "x">>]>>}
    ELSE {<<>>,
          <<[full_name |-> <<"b", "/", "o">>]>>}

\* what the request for a user can settle with: a transport error, a
\* response whose body is not JSON, an error response whose JSON body is an
\* object ({"message": "Not Found"}), or the array of repository records
Outcomes(ident) ==
  {[transport |-> FALSE, status |-> 200, body |-> [type |-> "array", items |-> r]] :
      r \in Repos(ident)}
  \cup {[transport |-> TRUE, status |-> 0, body |-> [type |-> "none", items |-> <<>>]],
        [transport |-> FALSE, status |-> 404, body |-> [type |-> "object", items |-> <<>>]],
        [transport |-> FALSE, status |-> 502, body |-> [type |-> "invalid", items |-> <<>>]]}

VARIABLES
  list,          \* state cell `list`
  filter,        \* state cell `filter`
  fileredList,   \* state cell `fileredList`
  inputValue,    \* state cell `inputValue`
  effects,       \* effects of the last commit still to run, in order
  queued,        \* updates queued for `fileredList` by setFileredList
  inflight,      \* requests issued and not settled, in order of issue
  warnCalls,     \* calls of toWarnAPI since the last event
  errorCalls,    \* calls of console.error since the last event
  requests,      \* calls of fetch since the last event
  unhandled,     \* a promise chain ended in a rejection nobody handles
  last           \* the last event and the cells as they were before it

vars == <<list, filter, fileredList, inputValue, effects, queued, inflight,
          warnCalls, errorCalls, requests, unhandled, last>>

cells == <<list, filter, fileredList, inputValue>>

\* ------------------------------------------------------------ pure helpers
\* String.prototype.includes: `f` occurs in `item` as a contiguous run
Includes_prefix(item, f) ==
  Len(f) <= Len(item) /\ SubSeq(item, 1, Len(f)) = f

Includes(item, f) ==
  \E i \in 0..(Len(item) - Len(f)) : SubSeq(item, i + 1, i + Len(f)) = f

\* list.filter((item) => item.includes(filter))
FilterList(L, f) == SelectSeq(L, LAMBDA item : Includes(item, f))

\* data.map((item) => item.full_name)
FullNames(items) == [i \in 1..Len(items) |-> items[i].full_name]

\* dependency arrays of the three effects
DepsNotifier_withFilter == {"list", "filter"}

DepsNotifier == {"list"}

DepsFetch_withFilter == {"inputValue", "filter"}

DepsFetch == {"inputValue"}

DepsFilter_withFiltered == {"filter", "list", "fileredList"}

DepsFilter == {"filter", "list"}

\* the effects a commit schedules, given the cells that changed in it
EffectsFor(changed) ==
  (IF changed \cap DepsNotifier # {} THEN <<"notifier">> ELSE <<>>)
  \o (IF changed \cap DepsFetch # {} THEN <<"fetch">> ELSE <<>>)
  \o (IF changed \cap DepsFilter # {} THEN <<"filter">> ELSE <<>>)

\* no effect and no state update is pending
Settled == effects = <<>> /\ queued = <<>>

\* ------------------------------------------------------------------- Init
\* the first render is committed; every effect runs once after mount
Init ==
  /\ list = <<>>
  /\ filter = <<>>
  /\ fileredList = <<>>
  /\ inputValue = ""
  /\ effects = <<"notifier", "fetch", "filter">>
  /\ queued = <<>>
  /\ inflight = <<>>
  /\ warnCalls = 0
  /\ errorCalls = 0
  /\ requests = 0
  /\ unhandled = FALSE
  /\ last = [op |-> "mount", list |-> <<>>, filter |-> <<>>, inputValue |-> "",
             arg |-> "-", repeat |-> FALSE, body |-> "-", stale |-> FALSE]

\* the record of an event: its kind, the cells before it, the value it
\* carried (the text typed, the records received), whether the event before
\* it was the same event with the same value and, for the settling of a
\* request, the kind of body received ("none": no response) and whether a
\* request issued later for another user had already succeeded
Event(op, arg, body, stale) ==
  [op |-> op, list |-> list, filter |-> filter, inputValue |-> inputValue,
   arg |-> arg, repeat |-> (last.op = op /\ last.arg = arg),
   body |-> body, stale |-> stale]

\* ------------------------------------------------- the fetch promise chain
\* fetch(url).then(r => r.json()).then(data => setList(data.map(...)))
\*           .catch(error => console.error(...))
\* `set` holds the argument of setList when the chain reaches it
Caught == [set |-> <<>>, errors |-> 1, unhandled |-> FALSE]

Chain_clearOnError(outcome) ==
  IF outcome.transport \/ outcome.body.type # "array"
    THEN [set |-> << <<>> >>, errors |-> 1, unhandled |-> FALSE]
    ELSE [set |-> <<FullNames(outcome.body.items)>>, errors |-> 0,
          unhandled |-> FALSE]

Chain(outcome) ==
  IF outcome.transport
    THEN Caught                       \* fetch rejects
  ELSE IF outcome.body.type = "invalid"
    THEN Caught                       \* response.json() rejects
  ELSE IF outcome.body.type # "array"
    THEN Caught                       \* data.map is not a function
  ELSE [set |-> <<FullNames(outcome.body.items)>>, errors |-> 0,
        unhandled |-> FALSE]

\* the sequence s without its i-th element
RemoveAt(s, i) == SubSeq(s, 1, i - 1) \o SubSeq(s, i + 1, Len(s))

\* ------------------------------------------------------------------ events
\* onChange of the GitHub user input
handleChangeInput ==
  \E v \in Identifiers :
    /\ Settled
    /\ Len(inflight) < MaxInflight
    /\ inputValue' = v
    /\ effects' = EffectsFor(IF v # inputValue THEN {"inputValue"} ELSE {})
    /\ last' = Event("setInput", v, "-", FALSE)
    /\ warnCalls' = 0 /\ errorCalls' = 0 /\ requests' = 0
    /\ UNCHANGED <<list, filter, fileredList, queued, inflight, unhandled>>

\* onChange of the filter input
setFilter_concat ==
  \E v \in FilterTexts :
    /\ Settled
    /\ filter' = filter \o v
    /\ effects' = EffectsFor(IF filter \o v # filter THEN {"filter"} ELSE {})
    /\ last' = Event("setFilter", v, "-", FALSE)
    /\ warnCalls' = 0 /\ errorCalls' = 0 /\ requests' = 0
    /\ UNCHANGED <<list, fileredList, inputValue, queued, inflight, unhandled>>

setFilter ==
  \E v \in FilterTexts :
    /\ Settled
    /\ filter' = v
    /\ effects' = EffectsFor(IF v # filter THEN {"filter"} ELSE {})
    /\ last' = Event("setFilter", v, "-", FALSE)
    /\ warnCalls' = 0 /\ errorCalls' = 0 /\ requests' = 0
    /\ UNCHANGED <<list, fileredList, inputValue, queued, inflight, unhandled>>

\* onClick of the button
addToList_prepend ==
  /\ Settled
  /\ Len(list) < MaxList
  /\ list' = <<NovoItem>> \o list
  /\ effects' = EffectsFor({"list"})
  /\ last' = Event("append", "-", "-", FALSE)
  /\ warnCalls' = 0 /\ errorCalls' = 0 /\ requests' = 0
  /\ UNCHANGED <<filter, fileredList, inputValue, queued, inflight, unhandled>>

addToList ==
  /\ Settled
  /\ Len(list) < MaxList
  /\ list' = list \o <<NovoItem>>
  /\ effects' = EffectsFor({"list"})
  /\ last' = Event("append", "-", "-", FALSE)
  /\ warnCalls' = 0 /\ errorCalls' = 0 /\ requests' = 0
  /\ UNCHANGED <<filter, fileredList, inputValue, queued, inflight, unhandled>>

\* the promise chain of the i-th request in flight settles
Resolve_retry ==
  \E i \in 1..Len(inflight) :
    \E outcome \in Outcomes(inflight[i].ident) :
      LET r == Chain(outcome)
          ok == r.set # <<>>
          rest == [j \in 1..Len(inflight) |->
                     IF j < i /\ outcome.body.type = "array"
                          /\ inflight[j].ident # inflight[i].ident
                       THEN [inflight[j] EXCEPT !.stale = TRUE]
                       ELSE inflight[j]]
      IN
      /\ Settled
      /\ inflight' = IF ok THEN RemoveAt(rest, i)
                          ELSE Append(RemoveAt(rest, i), inflight[i])
      /\ IF ok
           THEN /\ list' = r.set[1]
                /\ effects' = EffectsFor({"list"})
           ELSE /\ list' = list
                /\ effects' = <<>>
      /\ errorCalls' = r.errors
      /\ unhandled' = (unhandled \/ r.unhandled)
      /\ last' = Event("resolve", outcome.body.items, outcome.body.type, inflight[i].stale)
      /\ warnCalls' = 0 /\ requests' = IF ok THEN 0 ELSE 1
      /\ UNCHANGED <<filter, fileredList, inputValue, queued>>

Resolve_merge ==
  \E i \in 1..Len(inflight) :
    \E outcome \in Outcomes(inflight[i].ident) :
      LET r == Chain(outcome)
          ok == r.set # <<>>
          rest == [j \in 1..Len(inflight) |->
                     IF j < i /\ outcome.body.type = "array"
                          /\ inflight[j].ident # inflight[i].ident
                       THEN [inflight[j] EXCEPT !.stale = TRUE]
                       ELSE inflight[j]]
      IN
      /\ Settled
      /\ inflight' = RemoveAt(rest, i)
      /\ IF ok
           THEN /\ list' = list \o r.set[1]
                /\ effects' = EffectsFor({"list"})
           ELSE /\ list' = list
                /\ effects' = <<>>
      /\ errorCalls' = r.errors
      /\ unhandled' = (unhandled \/ r.unhandled)
      /\ last' = Event("resolve", outcome.body.items, outcome.body.type, inflight[i].stale)
      /\ warnCalls' = 0 /\ requests' = 0
      /\ UNCHANGED <<filter, fileredList, inputValue, queued>>

Resolve ==
  \E i \in 1..Len(inflight) :
    \E outcome \in Outcomes(inflight[i].ident) :
      LET r == Chain(outcome)
          ok == r.set # <<>>
          rest == [j \in 1..Len(inflight) |->
                     IF j < i /\ outcome.body.type = "array"
                          /\ inflight[j].ident # inflight[i].ident
                       THEN [inflight[j] EXCEPT !.stale = TRUE]
                       ELSE inflight[j]]
      IN
      /\ Settled
      /\ inflight' = RemoveAt(rest, i)
      /\ IF ok
           THEN /\ list' = r.set[1]
                /\ effects' = EffectsFor({"list"})
           ELSE /\ list' = list
                /\ effects' = <<>>
      /\ errorCalls' = r.errors
      /\ unhandled' = (unhandled \/ r.unhandled)
      /\ last' = Event("resolve", outcome.body.items, outcome.body.type, inflight[i].stale)
      /\ warnCalls' = 0 /\ requests' = 0
      /\ UNCHANGED <<filter, fileredList, inputValue, queued>>

\* ----------------------------------------------------------------- effects
\* useEffect(() => { if (list.length !== 0) toWarnAPI() }, [list])
NotifierEffect_noGuard ==
  /\ effects # <<>> /\ Head(effects) = "notifier"
  /\ warnCalls' = warnCalls + 1
  /\ effects' = Tail(effects)
  /\ UNCHANGED <<cells, queued, inflight, errorCalls, requests, unhandled, last>>

NotifierEffect_moreThanOne ==
  /\ effects # <<>> /\ Head(effects) = "notifier"
  /\ warnCalls' = IF Len(list) > 1 THEN warnCalls + 1 ELSE warnCalls
  /\ effects' = Tail(effects)
  /\ UNCHANGED <<cells, queued, inflight, errorCalls, requests, unhandled, last>>

NotifierEffect ==
  /\ effects # <<>> /\ Head(effects) = "notifier"
  /\ warnCalls' = IF Len(list) # 0 THEN warnCalls + 1 ELSE warnCalls
  /\ effects' = Tail(effects)
  /\ UNCHANGED <<cells, queued, inflight, errorCalls, requests, unhandled, last>>

\* useEffect(() => { if (inputValue !== "") fetch(...) ... }, [inputValue])
FetchEffect_noGuard ==
  /\ effects # <<>> /\ Head(effects) = "fetch"
  /\ inflight' = Append(inflight, [ident |-> inputValue, stale |-> FALSE])
  /\ requests' = requests + 1
  /\ effects' = Tail(effects)
  /\ UNCHANGED <<cells, queued, warnCalls, errorCalls, unhandled, last>>

FetchEffect ==
  /\ effects # <<>> /\ Head(effects) = "fetch"
  /\ IF inputValue # ""
       THEN /\ inflight' = Append(inflight, [ident |-> inputValue, stale |-> FALSE])
            /\ requests' = requests + 1
       ELSE UNCHANGED <<inflight, requests>>
  /\ effects' = Tail(effects)
  /\ UNCHANGED <<cells, queued, warnCalls, errorCalls, unhandled, last>>

\* useEffect(() => { setFileredList(list.filter(...)) }, [filter, list])
FilterEffect ==
  /\ effects # <<>> /\ Head(effects) = "filter"
  /\ queued' = Append(queued, FilterList(list, filter))
  /\ effects' = Tail(effects)
  /\ UNCHANGED <<cells, inflight, warnCalls, errorCalls, requests, unhandled, last>>

\* the render that applies the queued setFileredList; no dependency of any
\* effect changes in it, so it schedules no effect
Rerender ==
  /\ effects = <<>> /\ queued # <<>>
  /\ fileredList' = queued[Len(queued)]
  /\ queued' = <<>>
  /\ effects' = EffectsFor({"fileredList"})
  /\ UNCHANGED <<list, filter, inputValue, inflight, warnCalls, errorCalls,
                 requests, unhandled, last>>

Next ==
  \/ handleChangeInput
  \/ setFilter
  \/ addToList
  \/ Resolve
  \/ NotifierEffect
  \/ FetchEffect
  \/ FilterEffect
  \/ Rerender

Spec == Init /\ [][Next]_vars

\* ------------------------------------------------------------- properties
\* the request that settled last failed: no response, a body that is not
\* JSON, or an error response whose body is not the array of records
Failed == last.op = "resolve" /\ last.body \in {"none", "invalid", "object"}

\* f occurs in item: item is some prefix, then f, then some suffix
Contains(item, f) ==
  \E p \in 0..Len(item) : \E q \in 0..Len(item) :
    /\ p + Len(f) + q = Len(item)
    /\ item = SubSeq(item, 1, p) \o f \o SubSeq(item, Len(item) - q + 1, Len(item))

\* s is exactly the elements of L that contain f, in the order of L
IsSelection(s, L, f) ==
  LET kept == {i \in 1..Len(L) : Contains(L[i], f)}
      nth(k) == CHOOSE i \in kept : Cardinality({j \in kept : j <= i}) = k
  IN /\ Len(s) = Cardinality(kept)
     /\ \A k \in 1..Len(s) : s[k] = L[nth(k)]

\* C1: when the request for an earlier identifier settles with a list after
\* the request for a later, different identifier has settled with one, its
\* result is discarded: the list stays as the later request left it.
C1_LastIdentifierWins ==
  (last.op = "resolve" /\ last.body = "array" /\ last.stale) => list = last.list

\* C2: once the effects have settled, the filtered list is exactly the
\* elements of the list that contain the filter text, in list order,
\* duplicates kept; an empty filter text keeps the whole list.
C2_FilteredIsSelection ==
  Settled => /\ IsSelection(fileredList, list, filter)
             /\ (filter = <<>> => fileredList = list)

C2_Witness ==
  /\ Settled
  /\ filter = <<"o">>
  /\ list = <<(<<"a", "/", "o">>), (<<"a", "/", "x">>), NovoItem>>
  /\ fileredList = <<(<<"a", "/", "o">>), NovoItem>>

C4_EmptyIdentifierNoRequest ==
  (last.op = "setInput" /\ inputValue = "") =>
     /\ requests = 0
     /\ list = last.list

C4_Witness ==
  /\ Settled
  /\ last.op = "setInput"
  /\ inputValue = ""
  /\ last.inputValue # ""
  /\ inflight # <<>>
  /\ list # <<>>

\* C5: appending the placeholder yields the previous list followed by the
\* one element "Novo item", the filter text is unchanged, and once the
\* effects have settled the filtered list is the selection of the new list.
C5_AppendPlaceholder ==
  last.op = "append" =>
     /\ list = last.list \o <<NovoItem>>
     /\ Len(list) = Len(last.list) + 1
     /\ \A i \in 1..Len(last.list) : list[i] = last.list[i]
     /\ filter = last.filter
     /\ (Settled => IsSelection(fileredList, last.list \o <<NovoItem>>, last.filter))

C5_Witness ==
  /\ Settled
  /\ last.op = "append"
  /\ Len(last.list) = 2
  /\ filter = <<"o", " ", "i">>
  /\ fileredList = <<NovoItem>>

\* C6: the notifier is called exactly once when the list goes from empty to
\* non-empty, and is not called when only the filter text is set.
C6_NotifierOnceOnFirstItems ==
  /\ (last.op \in {"append", "resolve"} /\ last.list = <<>> /\ list # <<>>) =>
        (warnCalls <= 1 /\ (Settled => warnCalls = 1))
  /\ last.op = "setFilter" => (warnCalls = 0 /\ list = last.list)

C6_Witness ==
  /\ Settled
  /\ last.op = "setFilter"
  /\ filter # last.filter
  /\ list # <<>>
  /\ warnCalls = 0

\* C7: the notifier is called whenever the list goes from empty to non-empty
\* or from non-empty to empty.
C7_NotifierOnEveryEmptinessChange ==
  (/\ Settled
   /\ last.op \in {"append", "resolve"}
   /\ (last.list = <<>>) # (list = <<>>)) => warnCalls >= 1

\* C8: every append of the placeholder calls the notifier exactly once.
C8_AppendNotifiesOnce ==
  last.op = "append" => (warnCalls <= 1 /\ (Settled => warnCalls = 1))

C8_Witness ==
  /\ Settled
  /\ last.op = "append"
  /\ last.list = <<>>
  /\ warnCalls = 1

\* C9: a request that succeeds with an empty list while the list is empty
\* does not call the notifier, and neither do the effects run at mount.
C9_NoNotifyWhileEmpty ==
  /\ (last.op = "resolve" /\ last.body = "array" /\ last.list = <<>> /\ list = <<>>) =>
        warnCalls = 0
  /\ last.op = "mount" => warnCalls = 0

C9_Witness ==
  /\ Settled
  /\ last.op = "resolve"
  /\ last.body = "array"
  /\ last.list = <<>>
  /\ list = <<>>

\* C10: in every committed render the filtered list is the selection of the
\* current list by the current filter text.
C10_EveryRenderConsistent ==
  IsSelection(fileredList, list, filter)

\* the elements of a sequence
Range(s) == {s[i] : i \in 1..Len(s)}

\* what is left of the effect cascade: every pending effect may queue one
\* update, and every queued update costs one render
Measure == 2 * Len(effects) + Len(queued)

\* C11: setting the filter text to f a second time in a row leaves the
\* filter text, the list and the filtered list as the first call left them,
\* calls the notifier not at all and issues no request.
C11_SetFilterIdempotent ==
  (last.op = "setFilter" /\ last.repeat) =>
     /\ filter = last.arg
     /\ filter = last.filter
     /\ list = last.list
     /\ warnCalls = 0
     /\ requests = 0
     /\ (Settled => IsSelection(fileredList, last.list, last.filter))

C11_Witness ==
  /\ Settled
  /\ last.op = "setFilter"
  /\ last.repeat
  /\ last.arg = <<"o">>
  /\ Len(list) = 3
  /\ Len(fileredList) = 2

\* C12: setting the filter text leaves the list and the identifier as they
\* were and issues no request.
C12_SetFilterFrame ==
  last.op = "setFilter" =>
     /\ list = last.list
     /\ inputValue = last.inputValue
     /\ requests = 0

C12_Witness ==
  /\ Settled
  /\ last.op = "setFilter"
  /\ filter # last.filter
  /\ inputValue # ""
  /\ inflight # <<>>
  /\ list # <<>>

\* C13: an event issues one request, for the new identifier, when it changes
\* the identifier to a non-empty value, and no request otherwise; the
\* settling of a failed request in particular issues none.
C13_OneRequestPerChange ==
  LET change == /\ last.op = "setInput"
                /\ inputValue # last.inputValue
                /\ inputValue # ""
  IN /\ change => /\ requests <= 1
                  /\ Settled => /\ requests = 1
                                /\ inflight # <<>>
                                /\ inflight[Len(inflight)].ident = inputValue
     /\ ~change => requests = 0

C13_Witness ==
  /\ Settled
  /\ Failed
  /\ requests = 0
  /\ inflight = <<>>
  /\ inputValue # ""

\* C14: the notifier is called only in states where the filtered list is
\* already the selection of the current list by the current filter text.
C14_FilteredBeforeNotifier ==
  [][warnCalls' > warnCalls => IsSelection(fileredList, list, filter)]_vars

\* C15: a request that succeeds replaces the list by the full names of the
\* records received, in their order, whatever the list held; placeholders
\* appended before are gone, one appended afterwards follows the names.
C15_FetchReplacesWholesale ==
  /\ (last.op = "resolve" /\ last.body = "array") =>
        /\ Len(list) = Len(last.arg)
        /\ \A i \in 1..Len(list) : list[i] = last.arg[i].full_name
        /\ NovoItem \notin Range(list)
  /\ last.op = "append" =>
        /\ SubSeq(list, 1, Len(last.list)) = last.list
        /\ list[Len(list)] = NovoItem

C15_Witness ==
  /\ Settled
  /\ last.op = "resolve"
  /\ last.body = "array"
  /\ NovoItem \in Range(last.list)
  /\ Len(list) = 2

\* C16: while an effect or an update is pending every step brings the
\* cascade nearer its end, the render of the queued filtered list schedules
\* no effect, and no event has the notifier or fetch called twice.
C16_CascadeSettles ==
  [][/\ ~Settled => Measure' < Measure
     /\ (queued # <<>> /\ queued' = <<>>) => effects' = <<>>
     /\ warnCalls' <= 1
     /\ requests' <= 1]_vars

C16_Witness ==
  /\ effects = <<>>
  /\ queued # <<>>
  /\ last.op = "resolve"
  /\ warnCalls = 1
  /\ fileredList # queued[1]
====
